---- MODULE Spec2Model ----
(***************************************************************************)
(* redditquery: an inverted index kept in a relational sparse matrix       *)
(* (src/src/redditquery).  The model follows InvertedIndex.__init__        *)
(* (ingest, prune, scoring, vacuum) statement by statement and then        *)
(* QueryProcessor.query_index on the finished index.                       *)
(*                                                                         *)
(* Surface tokens are the integers 1..NumTokens (distinct strings).        *)
(* The REAL column `score` and every float of the program are fixed-point  *)
(* numbers in units of 1/Scale.                                            *)
(***************************************************************************)
EXTENDS Integers, Sequences, FiniteSets, TLC

\* ---- bounds of the model ------------------------------------------------
NumTokens == 2
MaxDocs == 3
MaxDocLen == 2
MaxThreshold == 2
MaxQueryLen == 2
MaxQueries == 1
MaxTopK == 2
MaxCalls == 4
MaxMonths == 1
MaxPoolMonths == 2
MaxRuns == 2
MaxInterval == 2
MaxCores == 2

\* ---- fixed-point arithmetic standing for the program's floats -----------
Scale == 2 ^ 10
WorkOne == 2 ^ 14

Tokens == 1 .. NumTokens
TokenLists == UNION {[1 .. n -> Tokens] : n \in 0 .. MaxDocLen}
QueryLists == UNION {[1 .. n -> Tokens] : n \in 0 .. MaxQueryLen}

Range(s) == {s[i] : i \in DOMAIN s}

\* math.sqrt on a non-negative fixed-point square sum: the integer root
RECURSIVE SqrtBits(_, _, _)
SqrtBits(n, r, b) ==
    IF b = 0 THEN r
    ELSE LET c == r + b
         IN IF c * c <= n THEN SqrtBits(n, c, b \div 2) ELSE SqrtBits(n, r, b \div 2)

sqrt(n) == SqrtBits(n, 0, 2 ^ 15)

\* math.log2 of the quotient n / d (n >= d >= 1), in units of 1/Scale:
\* integer part by halving, fraction bit by bit by repeated squaring
RECURSIVE Log2Int(_, _)
Log2Int(n, d) == IF 2 * d <= n THEN 1 + Log2Int(n, 2 * d) ELSE 0

RECURSIVE Log2Frac(_, _)
Log2Frac(x, weight) ==
    IF weight = 0 THEN 0
    ELSE LET y == (x * x) \div WorkOne
         IN IF y >= 2 * WorkOne
            THEN weight + Log2Frac(y \div 2, weight \div 2)
            ELSE Log2Frac(y, weight \div 2)

log2(n, d) ==
    LET k == Log2Int(n, d)
        x == (n * WorkOne) \div (d * 2 ^ k)
    IN k * Scale + Log2Frac(x, Scale \div 2)

\* ---- utils.py: Numberer ---------------------------------------------------
\* a Numberer is [known, num_keys]; known maps the keys seen to their numbers
Numberer(start) == [known |-> <<>>, num_keys |-> start]

NumbererGetNoCount(nb, key) ==
    IF key \in DOMAIN nb.known
    THEN [numberer |-> nb, id |-> nb.known[key]]
    ELSE [numberer |->
            [known |-> [k \in DOMAIN nb.known \cup {key} |->
                          IF k = key THEN nb.num_keys + 1 ELSE nb.known[k]],
             num_keys |-> nb.num_keys],
          id |-> nb.num_keys + 1]

\* Numberer.get: the number of a known key, else the next number is taken
NumbererGet(nb, key) ==
    IF key \in DOMAIN nb.known
    THEN [numberer |-> nb, id |-> nb.known[key]]
    ELSE [numberer |->
            [known |-> [k \in DOMAIN nb.known \cup {key} |->
                          IF k = key THEN nb.num_keys + 1 ELSE nb.known[k]],
             num_keys |-> nb.num_keys + 1],
          id |-> nb.num_keys + 1]

\* [self.vocabulary_indices.get(term) for term in keys], left to right
RECURSIVE GetAll(_, _)
GetAll(nb, keys) ==
    IF keys = <<>> THEN [numberer |-> nb, ids |-> <<>>]
    ELSE LET first == NumbererGet(nb, Head(keys))
             rest == GetAll(first.numberer, Tail(keys))
         IN [numberer |-> rest.numberer, ids |-> <<first.id>> \o rest.ids]

remove_values_nothing(nb, values) == nb

remove_values_rewind(nb, values) ==
    LET kept == {k \in DOMAIN nb.known : nb.known[k] \notin values}
    IN [known |-> [k \in kept |-> nb.known[k]],
        num_keys |-> nb.num_keys - Cardinality(DOMAIN nb.known \ kept)]

\* Numberer.remove_values: drop every key whose number is in values
remove_values(nb, values) ==
    [known |-> [k \in {k \in DOMAIN nb.known : nb.known[k] \notin values} |->
                  nb.known[k]],
     num_keys |-> nb.num_keys]

\* ---- collections.Counter ------------------------------------------------
Count(x, s) == Cardinality({i \in DOMAIN s : s[i] = x})

RECURSIVE Distinct(_)
Distinct(s) ==
    IF s = <<>> THEN <<>>
    ELSE LET front == Distinct(SubSeq(s, 1, Len(s) - 1))
         IN IF s[Len(s)] \in Range(front) THEN front ELSE Append(front, s[Len(s)])

\* Counter(terms).items(): one (term_id, count) pair per distinct term
Counter(terms) ==
    LET d == Distinct(terms)
    IN [i \in 1 .. Len(d) |-> <<d[i], Count(d[i], terms)>>]

\* ---- database.py: DataBase ------------------------------------------------
\* a row of doc_term_table is [document_id, term_id, score], a row of
\* document_table is [document_id, document_name]
Fix(n) == n * Scale

\* DataBase.__init__ with existing = False: the two empty tables
NewDataBase ==
    [doc_term_table |-> {}, document_table |-> {}, in_transaction |-> FALSE,
     indices |-> {}, statements |-> <<>>]

HasKey(table, d, t) == \E r \in table : r.document_id = d /\ r.term_id = t

\* executemany(INSERT INTO doc_term_table VALUES(document_id, ?, ?)): row by
\* row, the primary key (document_id, term_id) rejects a second row
RECURSIVE InsertPostings(_, _, _)
InsertPostings(db, document_id, term_scores) ==
    IF term_scores = <<>> THEN [db |-> db, error |-> "none"]
    ELSE LET item == Head(term_scores)
         IN IF HasKey(db.doc_term_table, document_id, item[1])
            THEN [db |-> db, error |-> "IntegrityError"]
            ELSE InsertPostings(
                   [db EXCEPT !.doc_term_table = @ \cup
                                 {[document_id |-> document_id, term_id |-> item[1],
                                   score |-> Fix(item[2])]},
                              !.statements = Append(@, "INSERT doc_term_table")],
                   document_id, Tail(term_scores))

insert_document_from_one(db, document_id, document_name, term_scores) ==
    InsertPostings(
      [db EXCEPT !.document_table = @ \cup
                    {[document_id |-> document_id + 1, document_name |-> document_name]},
                 !.statements = Append(@, "INSERT document_table")],
      document_id + 1, term_scores)

\* DataBase.insert_document: the document row first, then its postings
insert_document(db, document_id, document_name, term_scores) ==
    IF \E r \in db.document_table : r.document_id = document_id
    THEN [db |-> db, error |-> "IntegrityError"]
    ELSE InsertPostings(
           [db EXCEPT !.document_table = @ \cup
                         {[document_id |-> document_id, document_name |-> document_name]},
                      !.statements = Append(@, "INSERT document_table")],
           document_id, term_scores)

\* DataBase.retrieve_term: the documents holding a posting of term_id
retrieve_term(db, term_id) ==
    {r.document_id : r \in {q \in db.doc_term_table : q.term_id = term_id}}

\* DataBase.retrieve_document: the (term_id, score) rows of a document
retrieve_document(db, document_id) ==
    {<<r.term_id, r.score>> : r \in {q \in db.doc_term_table : q.document_id = document_id}}

get_document_frequency_unscored(db, term_id) ==
    Cardinality({r \in db.doc_term_table : r.term_id = term_id /\ r.score >= Scale})

\* DataBase.get_document_frequency: number of rows of term_id
get_document_frequency(db, term_id) ==
    Cardinality({r \in db.doc_term_table : r.term_id = term_id})

RECURSIVE SumScores(_)
SumScores(rows) ==
    IF rows = {} THEN 0
    ELSE LET r == CHOOSE r \in rows : TRUE IN r.score + SumScores(rows \ {r})

\* sum(score) ... GROUP BY term_id
TotalOf(table, term_id) == SumScores({r \in table : r.term_id = term_id})

get_infrequent_below(db, frequency_threshold) ==
    {t \in {r.term_id : r \in db.doc_term_table} :
        TotalOf(db.doc_term_table, t) < Fix(frequency_threshold)}

\* DataBase.get_infrequent: term ids whose total is <= the threshold
get_infrequent(db, frequency_threshold) ==
    {t \in {r.term_id : r \in db.doc_term_table} :
        TotalOf(db.doc_term_table, t) <= Fix(frequency_threshold)}

auto_delete_never(document_table, doc_term_table, old_id) == document_table

auto_delete_always(document_table, doc_term_table, old_id) ==
    {d \in document_table : d.document_id # old_id}

\* trigger auto_delete, fired after the delete of one row of document old_id:
\* the document row goes when no row of that document is left
auto_delete(document_table, doc_term_table, old_id) ==
    {d \in document_table :
        ~(d.document_id = old_id
          /\ ~\E s \in doc_term_table : s.document_id = old_id)}

RECURSIVE DeleteRows(_, _)
DeleteRows(db, victims) ==
    IF victims = {} THEN db
    ELSE LET old == CHOOSE r \in victims : TRUE
             remaining == db.doc_term_table \ {old}
         IN DeleteRows(
              [db EXCEPT !.doc_term_table = remaining,
                         !.document_table = auto_delete(@, remaining, old.document_id)],
              victims \ {old})

DeleteTermNothing(db, term_id) == [db EXCEPT !.statements = Append(@, "DELETE")]

\* one statement of remove_terms: DELETE FROM doc_term_table WHERE term_id == ?
DeleteTerm(db, term_id) ==
    DeleteRows([db EXCEPT !.statements = Append(@, "DELETE")],
               {r \in db.doc_term_table : r.term_id = term_id})

\* DataBase.update_documents: executemany(UPDATE ... SET score), then commit;
\* a triple is <<score, document_id, term_id>>
update_documents(db, score_tuples) ==
    LET Hit(r) == {u \in score_tuples : u[2] = r.document_id /\ u[3] = r.term_id}
    IN [db EXCEPT !.doc_term_table =
                     {IF Hit(r) = {} THEN r
                      ELSE [r EXCEPT !.score = (CHOOSE u \in Hit(r) : TRUE)[1]] : r \in @},
                  !.statements = @ \o [i \in 1 .. Cardinality(score_tuples) |-> "UPDATE"]
                                   \o <<"COMMIT">>,
                  !.in_transaction = FALSE]

\* DataBase.create_index
create_index(db, column_name) ==
    [db EXCEPT !.indices = @ \cup {column_name},
               !.statements = @ \o <<"CREATE INDEX " \o column_name, "COMMIT">>,
               !.in_transaction = FALSE]

\* DataBase.prepare_inserts
prepare_inserts(db) ==
    [db EXCEPT !.in_transaction = TRUE, !.statements = Append(@, "BEGIN")]

Commit(db) ==
    [db EXCEPT !.in_transaction = FALSE, !.statements = Append(@, "COMMIT")]

prepare_deletes_nothing(db) == db

\* DataBase.prepare_deletes
prepare_deletes(db) == create_index(Commit(db), "term_id")

prepare_updates_nothing(db) == db

\* DataBase.prepare_updates
prepare_updates(db) == create_index(db, "document_id")

\* DataBase.prepare_searches
prepare_searches(db) == Commit([db EXCEPT !.statements = Append(@, "VACUUM")])

\* ---- utils.py: l2_norm ----------------------------------------------------
RECURSIVE SumSquares(_)
SumSquares(pairs) ==
    IF pairs = {} THEN 0
    ELSE LET p == CHOOSE p \in pairs : TRUE
         IN p[2] * p[2] + SumSquares(pairs \ {p})

\* l2_norm of the second components of a set of (term_id, value) pairs
l2_norm(pairs) == sqrt(SumSquares(pairs))

\* ---- index.py: InvertedIndex ----------------------------------------------
FlushInterval == 10000

Max(a, b) == IF a >= b THEN a ELSE b

\* InvertedIndex.get_idf: log2(num_documents / max(df, 1)); math.log2 raises
\* ValueError on 0
IdfFails(num_docs) == num_docs = 0

get_idf_remaining(db, num_docs, term_id) ==
    log2(Cardinality(db.document_table), Max(get_document_frequency(db, term_id), 1))

get_idf(db, num_docs, term_id) ==
    log2(num_docs, Max(get_document_frequency(db, term_id), 1))

\* InvertedIndex.tfidf: frequency * idf
tfidf(db, num_docs, term_id, frequency) ==
    (frequency * get_idf(db, num_docs, term_id)) \div Scale

\* tfidf / norm; Python raises ZeroDivisionError when norm is 0.0
DivFails(values, norm) == values # {} /\ norm = 0

Div(value, norm) == (value * Scale) \div norm

\* one pass of the loop body of transform_to_tfidf up to `updates += normed`
DocumentTfidfs(db, num_docs, d) ==
    {<<p[1], tfidf(db, num_docs, p[1], p[2])>> : p \in retrieve_document(db, d)}

NormedNot(tfidfs, d) == {<<p[2], d, p[1]>> : p \in tfidfs}

Normed(tfidfs, d) ==
    LET norm == l2_norm(tfidfs)
    IN {<<Div(p[2], norm), d, p[1]>> : p \in tfidfs}

VARIABLES
    pc,                  \* where InvertedIndex.__init__ / main stands
    error,               \* the exception that ended the run, or "none"
    frequency_threshold, \* argument of InvertedIndex.__init__
    num_documents,       \* InvertedIndex.num_documents
    vocabulary_indices,  \* InvertedIndex.vocabulary_indices (a Numberer)
    database,            \* InvertedIndex.database (a DataBase)
    consumed,            \* the token lists read from `documents` so far
    infrequent,          \* local of remove_infrequent
    todo,                \* the term ids remove_terms has yet to delete
    updates,             \* local of transform_to_tfidf
    doc_id,              \* loop variable of transform_to_tfidf
    num_queries,         \* lines read from stdin so far
    answer,              \* what the last query_index call did
    calls,               \* the calls made on a Numberer, each with the state around it
    args,                \* the parsed command line of the running process
    runs,                \* processes started so far
    directory,           \* args.dir: which files it holds, and the sidecar's content
    sealed,              \* the index as it was in memory when the build returned
    flush_interval,      \* documents between two flushes of transform_to_tfidf
    scenario             \* 0: any stream and any query; else the corpus that is read

vars == <<pc, error, frequency_threshold, num_documents, vocabulary_indices,
          database, consumed, infrequent, todo, updates, doc_id, num_queries,
          answer, calls, args, runs, directory, sealed, flush_interval, scenario>>

\* what the index and its queries never touch
main_vars == <<calls, args, runs, directory, sealed, flush_interval, scenario>>

\* the index used as a library: no command line
NoArgs == [mode |-> 0, start |-> 0, end |-> 0, cores |-> 1]

\* no file in args.dir yet
EmptyDirectory == [store |-> FALSE, sidecar |-> <<>>, monthly_data |-> {}]

NoAnswer == [asked |-> FALSE]

\* ---- the streams and query lines a run can be given -------------------------
\* corpus 1: three documents of tokens found nowhere else (threshold 5);
\* corpus 2: docA = [a, b, b, c], docB = [a, b, d] (threshold 1)
Scenarios == 1 .. 2

Corpus(n) ==
    IF n = 1 THEN <<<<1>>, <<2, 2>>, <<3, 4>>>>
    ELSE <<<<1, 2, 2, 3>>, <<1, 2, 4>>>>

ScenarioThreshold(n) == IF n = 1 THEN 5 ELSE 1

RECURSIVE Concat(_)
Concat(seqs) == IF seqs = <<>> THEN <<>> ELSE Head(seqs) \o Concat(Tail(seqs))

\* the tokens of the corpus and 0, a token that is in no document
ScenarioTokens(n) == Range(Concat(Corpus(n))) \cup {0}

\* the records `documents` can yield next
NextDocuments ==
    IF scenario = 0 THEN TokenLists
    ELSE IF Len(consumed) < Len(Corpus(scenario))
    THEN {Corpus(scenario)[Len(consumed) + 1]}
    ELSE {}

\* `for document in documents` can end here
StreamExhausted ==
    IF scenario = 0 THEN TRUE ELSE Len(consumed) = Len(Corpus(scenario))

\* the token lists a query line can hold
Lines ==
    IF scenario = 0 THEN QueryLists
    ELSE UNION {[1 .. n -> ScenarioTokens(scenario)] : n \in 0 .. MaxQueryLen}

Init ==
    /\ pc = "make_indices"
    /\ error = "none"
    /\ frequency_threshold \in 0 .. MaxThreshold
    /\ num_documents = 0
    /\ vocabulary_indices = Numberer(0)
    /\ database = NewDataBase
    /\ consumed = <<>>
    /\ infrequent = {}
    /\ todo = {}
    /\ updates = {}
    /\ doc_id = 0
    /\ num_queries = 0
    /\ answer = NoAnswer
    /\ calls = <<>>
    /\ args = NoArgs
    /\ runs = 0
    /\ directory = [EmptyDirectory EXCEPT !.store = TRUE]
    /\ sealed = <<>>
    /\ flush_interval = FlushInterval
    /\ scenario = 0

\* make_indices, first line: prepare_inserts
PrepareInserts ==
    /\ pc = "make_indices"
    /\ database' = prepare_inserts(database)
    /\ pc' = "ingest"
    /\ UNCHANGED <<error, frequency_threshold, num_documents, vocabulary_indices,
                   consumed, infrequent, todo, updates, doc_id, num_queries, answer>>
    /\ UNCHANGED main_vars

TermScoresPerToken(term_ids) == [i \in DOMAIN term_ids |-> <<term_ids[i], 1>>]

\* what process_document hands to insert_document
TermScores(term_ids) == Counter(term_ids)

\* process_document on the next record of the stream
ProcessDocument ==
    /\ pc = "ingest"
    /\ num_documents < MaxDocs
    /\ args.mode = 0 \/ \E f \in directory.monthly_data : f.kind = "json"
    /\ \E tokens \in NextDocuments :
         LET got == GetAll(vocabulary_indices, tokens)
             ins == insert_document(database, num_documents,
                                    <<"comment", Len(consumed)>>, TermScores(got.ids))
         IN /\ vocabulary_indices' = got.numberer
            /\ database' = ins.db
            /\ consumed' = Append(consumed, tokens)
            /\ IF ins.error = "none"
               THEN /\ num_documents' = num_documents + 1
                    /\ UNCHANGED <<pc, error>>
               ELSE /\ pc' = "failed"
                    /\ error' = ins.error
                    /\ UNCHANGED num_documents
    /\ UNCHANGED <<frequency_threshold, infrequent, todo, updates, doc_id,
                   num_queries, answer>>
    /\ UNCHANGED main_vars

\* the stream is exhausted: make_indices returns, remove_infrequent starts
\* with get_infrequent
GetInfrequent ==
    /\ pc = "ingest"
    /\ StreamExhausted
    /\ infrequent' = get_infrequent(database, frequency_threshold)
    /\ database' = [database EXCEPT !.statements = Append(@, "SELECT infrequent")]
    /\ pc' = "prepare_deletes"
    /\ UNCHANGED <<error, frequency_threshold, num_documents, vocabulary_indices,
                   consumed, todo, updates, doc_id, num_queries, answer>>
    /\ UNCHANGED main_vars

PrepareDeletes ==
    /\ pc = "prepare_deletes"
    /\ database' = prepare_deletes(database)
    /\ todo' = infrequent
    /\ pc' = "remove_terms"
    /\ UNCHANGED <<error, frequency_threshold, num_documents, vocabulary_indices,
                   consumed, infrequent, updates, doc_id, num_queries, answer>>
    /\ UNCHANGED main_vars

Least(S) == CHOOSE x \in S : \A y \in S : x <= y

\* remove_terms: executemany runs one DELETE per term id, in list order
RemoveTerm ==
    /\ pc = "remove_terms"
    /\ todo # {}
    /\ database' = DeleteTerm(database, Least(todo))
    /\ todo' = todo \ {Least(todo)}
    /\ UNCHANGED <<pc, error, frequency_threshold, num_documents, vocabulary_indices,
                   consumed, infrequent, updates, doc_id, num_queries, answer>>
    /\ UNCHANGED main_vars

\* remove_terms: the commit after executemany
RemoveTermsCommit ==
    /\ pc = "remove_terms"
    /\ todo = {}
    /\ database' = Commit(database)
    /\ pc' = "remove_values"
    /\ UNCHANGED <<error, frequency_threshold, num_documents, vocabulary_indices,
                   consumed, infrequent, todo, updates, doc_id, num_queries, answer>>
    /\ UNCHANGED main_vars

\* remove_infrequent, last line
RemoveValues ==
    /\ pc = "remove_values"
    /\ vocabulary_indices' = remove_values(vocabulary_indices, infrequent)
    /\ pc' = "prepare_updates"
    /\ UNCHANGED <<error, frequency_threshold, num_documents, database, consumed,
                   infrequent, todo, updates, doc_id, num_queries, answer>>
    /\ UNCHANGED main_vars

\* transform_to_tfidf, up to the loop
PrepareUpdates ==
    /\ pc = "prepare_updates"
    /\ database' = prepare_updates(database)
    /\ updates' = {}
    /\ doc_id' = 0
    /\ pc' = "transform"
    /\ UNCHANGED <<error, frequency_threshold, num_documents, vocabulary_indices,
                   consumed, infrequent, todo, num_queries, answer>>
    /\ UNCHANGED main_vars

\* one iteration of the loop of transform_to_tfidf
TransformDocument ==
    /\ pc = "transform"
    /\ doc_id < num_documents
    /\ LET read == [database EXCEPT !.statements = Append(@, "SELECT document")]
           tfidfs == DocumentTfidfs(read, num_documents, doc_id)
       IN IF DivFails(tfidfs, l2_norm(tfidfs))
          THEN /\ pc' = "failed"
               /\ error' = "ZeroDivisionError"
               /\ database' = read
               /\ UNCHANGED <<updates, doc_id>>
          ELSE /\ IF doc_id % flush_interval = 0
                  THEN /\ database' = update_documents(read, updates \cup Normed(tfidfs, doc_id))
                       /\ updates' = {}
                  ELSE /\ database' = read
                       /\ updates' = updates \cup Normed(tfidfs, doc_id)
               /\ doc_id' = doc_id + 1
               /\ UNCHANGED <<pc, error>>
    /\ UNCHANGED <<frequency_threshold, num_documents, vocabulary_indices, consumed,
                   infrequent, todo, num_queries, answer>>
    /\ UNCHANGED main_vars

TransformRestNoFlush ==
    /\ pc = "transform"
    /\ doc_id = num_documents
    /\ pc' = "prepare_searches"
    /\ UNCHANGED <<error, frequency_threshold, num_documents, vocabulary_indices,
                   database, consumed, infrequent, todo, updates, doc_id, num_queries,
                   answer>>
    /\ UNCHANGED main_vars

\* transform_to_tfidf after the loop: the remaining updates
TransformRest ==
    /\ pc = "transform"
    /\ doc_id = num_documents
    /\ database' = IF updates # {} THEN update_documents(database, updates) ELSE database
    /\ updates' = {}
    /\ pc' = "prepare_searches"
    /\ UNCHANGED <<error, frequency_threshold, num_documents, vocabulary_indices,
                   consumed, infrequent, todo, doc_id, num_queries, answer>>
    /\ UNCHANGED main_vars

PrepareSearches ==
    /\ pc = "prepare_searches"
    /\ database' = prepare_searches(database)
    /\ pc' = "built"
    /\ sealed' = <<[num_documents |-> num_documents,
                    vocabulary_indices |-> vocabulary_indices,
                    database |-> database']>>
    /\ UNCHANGED <<error, frequency_threshold, num_documents, vocabulary_indices,
                   consumed, infrequent, todo, updates, doc_id, num_queries, answer>>
    /\ UNCHANGED <<flush_interval, scenario, calls, args, runs, directory>>

Build ==
    \/ PrepareInserts
    \/ ProcessDocument
    \/ GetInfrequent
    \/ PrepareDeletes
    \/ RemoveTerm
    \/ RemoveTermsCommit
    \/ RemoveValues
    \/ PrepareUpdates
    \/ TransformDocument
    \/ TransformRest
    \/ PrepareSearches

\* ---- index.py: QueryProcessor ---------------------------------------------
\* list(set(query)): every order of the distinct tokens can come out
Orderings(tokens) ==
    {o \in UNION {[1 .. n -> Range(tokens)] : n \in {Cardinality(Range(tokens))}} :
        Range(o) = Range(tokens)}

\* `'candidates' not in locals()` at line 275: candidates was bound at line
\* 272, so the test is never true
CandidatesUnbound == FALSE

\* the loop of lines 273-280 over term_ids, from the candidates so far
RECURSIVE CandidateLoop(_, _, _, _)
CandidateLoop(db, term_ids, conjunctive, candidates) ==
    IF term_ids = <<>> THEN candidates
    ELSE LET doc_ids == retrieve_term(db, Head(term_ids))
             next == IF CandidatesUnbound THEN doc_ids
                     ELSE IF conjunctive THEN candidates \cap doc_ids
                     ELSE candidates \cup doc_ids
         IN CandidateLoop(db, Tail(term_ids), conjunctive, next)

Candidates(db, term_ids, conjunctive) == CandidateLoop(db, term_ids, conjunctive, {})

\* QueryProcessor.query_to_tfidf before the division: (term_id, tfidf) pairs
QueryTfidfs(db, num_docs, term_ids) ==
    {<<t, tfidf(db, num_docs, t, Fix(1))>> : t \in Range(term_ids)}

\* QueryProcessor.query_to_tfidf: (term_id, tfidf / norm) pairs
query_to_tfidf(db, num_docs, term_ids) ==
    LET q == QueryTfidfs(db, num_docs, term_ids)
    IN {<<p[1], Div(p[2], l2_norm(q))>> : p \in q}

RECURSIVE SumProducts(_, _)
SumProducts(query_tfidfs, candidate_tfidfs) ==
    IF query_tfidfs = {} THEN 0
    ELSE LET p == CHOOSE p \in query_tfidfs : TRUE
             hit == {c \in candidate_tfidfs : c[1] = p[1]}
             term == IF hit = {} THEN 0
                     ELSE (p[2] * (CHOOSE c \in hit : TRUE)[2]) \div Scale
         IN term + SumProducts(query_tfidfs \ {p}, candidate_tfidfs)

\* QueryProcessor.get_similarity: (cosine, candidate)
get_similarity(db, candidate, query_tfidfs) ==
    <<SumProducts(query_tfidfs, retrieve_document(db, candidate)), candidate>>

\* tuple order on (similarity, doc_id)
PairLess(a, b) == a[1] < b[1] \/ (a[1] = b[1] /\ a[2] < b[2])

RECURSIVE nsmallest(_, _)
nsmallest(n, pairs) ==
    IF n = 0 \/ pairs = {} THEN <<>>
    ELSE LET low == CHOOSE p \in pairs : \A q \in pairs : q = p \/ PairLess(p, q)
         IN <<low>> \o nsmallest(n - 1, pairs \ {low})

\* heapq.nlargest(n, pairs): the n largest, largest first
RECURSIVE nlargest(_, _)
nlargest(n, pairs) ==
    IF n = 0 \/ pairs = {} THEN <<>>
    ELSE LET top == CHOOSE p \in pairs : \A q \in pairs : q = p \/ PairLess(q, p)
         IN <<top>> \o nlargest(n - 1, pairs \ {top})

\* DataBase.get_document_name: fetchone()[0]
NameRows(db, d) == {r \in db.document_table : r.document_id = d}

\* the call of main, line 56, passes no `conjunctive`
Omitted == "omitted"

\* a query handled as one more document of the index
QueryAsDocument ==
    /\ pc = "built"
    /\ num_queries < MaxQueries
    /\ \E tokens \in QueryLists :
         LET got == GetAll(vocabulary_indices, tokens)
             ins == insert_document(database, num_documents, <<"query", num_queries>>,
                                    TermScores(got.ids))
         IN /\ vocabulary_indices' = got.numberer
            /\ database' = ins.db
            /\ num_documents' = num_documents + 1
            /\ answer' = [asked |-> TRUE, tokens |-> tokens, error |-> "none"]
    /\ num_queries' = num_queries + 1
    /\ UNCHANGED <<pc, error, frequency_threshold, consumed, infrequent, todo, updates,
                   doc_id>>
    /\ UNCHANGED main_vars

\* QueryProcessor.query_index: what it finds, the error it ends with and the
\* dictionary it leaves
query_index(db, num_docs, nb, query, num_results, conjunctive) ==
    LET got == GetAll(nb, query)
        term_ids == got.ids
        candidates == Candidates(db, term_ids, conjunctive = "True")
        raw == QueryTfidfs(db, num_docs, term_ids)
        query_tfidfs == query_to_tfidf(db, num_docs, term_ids)
        similarities == {get_similarity(db, c, query_tfidfs) : c \in candidates}
        best == nlargest(num_results, similarities)
        Fail(e) == [error |-> e, numberer |-> got.numberer,
                    found |-> [term_ids |-> term_ids, candidates |-> candidates]]
    IN IF conjunctive = Omitted
       THEN [error |-> "TypeError", numberer |-> nb, found |-> <<>>]
       ELSE IF term_ids # <<>> /\ IdfFails(num_docs)
       THEN Fail("ValueError")
       ELSE IF DivFails(raw, l2_norm(raw))
       THEN Fail("ZeroDivisionError")
       ELSE IF \E i \in DOMAIN best : NameRows(db, best[i][2]) = {}
       THEN Fail("TypeError")
       ELSE [error |-> "none", numberer |-> got.numberer,
             found |->
               [term_ids |-> term_ids, candidates |-> candidates,
                idfs |-> [i \in DOMAIN query |->
                            <<query[i], get_idf(db, num_docs, term_ids[i])>>],
                results |-> [i \in DOMAIN best |->
                              [doc_id |-> best[i][2], similarity |-> best[i][1],
                               doc_name |-> (CHOOSE r \in NameRows(db, best[i][2]) : TRUE).document_name]]]]

\* one line handed to query_index, conjunctive being one of `conjunctives`
QueryLine(conjunctives) ==
    /\ num_queries < MaxQueries
    /\ \E tokens \in Lines, num_results \in 1 .. MaxTopK, fulltext \in BOOLEAN,
          conjunctive \in conjunctives :
         \E query \in Orderings(tokens) :
         LET asked == [asked |-> TRUE, tokens |-> tokens, query |-> query,
                       num_results |-> num_results, fulltext |-> fulltext,
                       conjunctive |-> conjunctive]
             out == query_index(database, num_documents, vocabulary_indices, query,
                                num_results, conjunctive)
         IN /\ num_queries' = num_queries + 1
            /\ answer' = asked @@ out.found @@ [error |-> out.error]
            /\ vocabulary_indices' = out.numberer
            /\ IF out.error = "none"
               THEN UNCHANGED <<pc, error>>
               ELSE pc' = "failed" /\ error' = out.error
    /\ UNCHANGED <<frequency_threshold, num_documents, database, consumed, infrequent,
                   todo, updates, doc_id>>
    /\ UNCHANGED main_vars

\* query_index(query, num_results, fulltext, conjunctive) on an index just built
Query ==
    /\ pc = "built"
    /\ QueryLine({"True", "False", Omitted})

Next == Build \/ Query

Spec == Init /\ [][Next]_vars

\* ---- the index built on one of the corpora ---------------------------------
InitScenario ==
    /\ pc = "make_indices"
    /\ error = "none"
    /\ scenario \in Scenarios
    /\ frequency_threshold = ScenarioThreshold(scenario)
    /\ num_documents = 0
    /\ vocabulary_indices = Numberer(0)
    /\ database = NewDataBase
    /\ consumed = <<>>
    /\ infrequent = {}
    /\ todo = {}
    /\ updates = {}
    /\ doc_id = 0
    /\ num_queries = 0
    /\ answer = NoAnswer
    /\ calls = <<>>
    /\ args = NoArgs
    /\ runs = 0
    /\ directory = [EmptyDirectory EXCEPT !.store = TRUE]
    /\ sealed = <<>>
    /\ flush_interval = FlushInterval

SpecScenario == InitScenario /\ [][Next]_vars

\* ---- the build with the flush of transform_to_tfidf every few documents -----
InitFlush ==
    /\ pc = "make_indices"
    /\ error = "none"
    /\ frequency_threshold \in 0 .. MaxThreshold
    /\ flush_interval \in (1 .. MaxInterval) \cup {FlushInterval}
    /\ num_documents = 0
    /\ vocabulary_indices = Numberer(0)
    /\ database = NewDataBase
    /\ consumed = <<>>
    /\ infrequent = {}
    /\ todo = {}
    /\ updates = {}
    /\ doc_id = 0
    /\ num_queries = 0
    /\ answer = NoAnswer
    /\ calls = <<>>
    /\ args = NoArgs
    /\ runs = 0
    /\ directory = [EmptyDirectory EXCEPT !.store = TRUE]
    /\ sealed = <<>>
    /\ scenario = 0

SpecFlush == InitFlush /\ [][Build]_vars

\* ---- __main__.py: one process after another in the same args.dir -----------
InitMain ==
    /\ pc = "shell"
    /\ error = "none"
    /\ frequency_threshold = 0
    /\ num_documents = 0
    /\ vocabulary_indices = Numberer(0)
    /\ database = NewDataBase
    /\ consumed = <<>>
    /\ infrequent = {}
    /\ todo = {}
    /\ updates = {}
    /\ doc_id = 0
    /\ num_queries = 0
    /\ answer = NoAnswer
    /\ calls = <<>>
    /\ args = NoArgs
    /\ runs = 0
    /\ directory = EmptyDirectory
    /\ sealed = <<>>
    /\ flush_interval = FlushInterval
    /\ scenario = 0

\* what a connection leaves in database.sql when its process ends: the rows
\* written since BEGIN are lost, and prepare_inserts issues the only BEGIN, on
\* the empty tables
Closed(db) ==
    [doc_term_table |-> IF db.in_transaction THEN {} ELSE db.doc_term_table,
     document_table |-> IF db.in_transaction THEN {} ELSE db.document_table,
     in_transaction |-> FALSE,
     indices |-> db.indices,
     statements |-> <<>>]

\* the command lines main can be given; 0 stands for a month that was not
\* given; mode 2 reads none of first, last, minfreq and cores
CommandLines ==
    {[mode |-> mode, start |-> start, end |-> end, cores |-> cores, minfreq |-> minfreq] :
       mode \in {1, 3}, start \in 0 .. MaxMonths, end \in 0 .. MaxMonths,
       cores \in 1 .. MaxCores, minfreq \in 0 .. MaxThreshold}
    \cup {[mode |-> 2, start |-> 0, end |-> 0, cores |-> 1, minfreq |-> 0]}

\* main is started: parse_args
Run ==
    /\ pc \in {"shell", "exit", "failed"}
    /\ runs < MaxRuns
    /\ \E line \in CommandLines :
         /\ args' = [mode |-> line.mode, start |-> line.start, end |-> line.end,
                     cores |-> line.cores]
         /\ frequency_threshold' = line.minfreq
    /\ runs' = runs + 1
    /\ pc' = "main"
    /\ error' = "none"
    /\ database' = Closed(database)
    /\ num_documents' = 0
    /\ vocabulary_indices' = Numberer(0)
    /\ consumed' = <<>>
    /\ infrequent' = {}
    /\ todo' = {}
    /\ updates' = {}
    /\ doc_id' = 0
    /\ num_queries' = 0
    /\ answer' = NoAnswer
    /\ UNCHANGED <<flush_interval, scenario, calls, directory, sealed>>

\* mode in (1, 3): first and last month must be given
CheckArguments ==
    /\ pc = "main"
    /\ args.mode \in {1, 3}
    /\ IF args.start = 0 \/ args.end = 0
       THEN pc' = "failed" /\ error' = "ValueError"
       ELSE pc' = "download" /\ UNCHANGED error
    /\ UNCHANGED <<frequency_threshold, num_documents, vocabulary_indices, database,
                   consumed, infrequent, todo, updates, doc_id, num_queries, answer>>
    /\ UNCHANGED main_vars

\* period_range(start, end, freq = "M")
Months(start, end) == start .. end

\* the files this process has written for a month into monthly_data
Downloaded(m) ==
    \E f \in directory.monthly_data :
      f.month = m /\ f.kind = "bz2" /\ f.written_by = runs

Decompressed(m) ==
    \E f \in directory.monthly_data :
      f.month = m /\ f.kind = "json" /\ f.written_by = runs

Requested == Months(args.start, args.end)

\* months not yet handed to process_month, and months a worker is busy with
Waiting == {m \in Requested : ~Downloaded(m) /\ ~Decompressed(m)}

Busy == {m \in Requested : Downloaded(m)}

\* a file written into monthly_data, replacing an older one of the same name
WriteFile(files, m, kind) ==
    {f \in files : ~(f.month = m /\ f.kind = kind)}
    \cup {[month |-> m, kind |-> kind, written_by |-> runs]}

\* process_month, first half: download_month. Months are handed out in order;
\* process_all takes one at a time, the Pool as many as it has workers
DownloadMonth ==
    /\ pc = "download"
    /\ Waiting # {}
    /\ Cardinality(Busy) < args.cores
    /\ directory' = [directory EXCEPT
                       !.monthly_data = WriteFile(@, Least(Waiting), "bz2")]
    /\ UNCHANGED <<pc, error, frequency_threshold, num_documents, vocabulary_indices,
                   database, consumed, infrequent, todo, updates, doc_id, num_queries,
                   answer>>
    /\ UNCHANGED <<flush_interval, scenario, calls, args, runs, sealed>>

\* process_month, second half: decompress_month writes the json file and
\* removes the archive (keep_compressed = False)
DecompressMonth ==
    /\ pc = "download"
    /\ \E m \in Busy :
         directory' = [directory EXCEPT
                         !.monthly_data =
                            {f \in WriteFile(@, m, "json") :
                               ~(f.month = m /\ f.kind = "bz2")}]
    /\ UNCHANGED <<pc, error, frequency_threshold, num_documents, vocabulary_indices,
                   database, consumed, infrequent, todo, updates, doc_id, num_queries,
                   answer>>
    /\ UNCHANGED <<flush_interval, scenario, calls, args, runs, sealed>>

JoinPoolEarly ==
    /\ pc = "download"
    /\ pc' = "open_store"
    /\ UNCHANGED <<error, frequency_threshold, num_documents, vocabulary_indices,
                   database, consumed, infrequent, todo, updates, doc_id, num_queries,
                   answer>>
    /\ UNCHANGED main_vars

\* process_all_parallel returns: every month has gone through process_month
JoinPool ==
    /\ pc = "download"
    /\ \A m \in Requested : Decompressed(m)
    /\ pc' = "open_store"
    /\ UNCHANGED <<error, frequency_threshold, num_documents, vocabulary_indices,
                   database, consumed, infrequent, todo, updates, doc_id, num_queries,
                   answer>>
    /\ UNCHANGED main_vars

\* DataBase(database_file): refuses a file that exists, else creates it; then
\* InvertedIndex(...) begins
OpenStore ==
    /\ pc = "open_store"
    /\ IF directory.store
       THEN /\ pc' = "failed"
            /\ error' = "FileExistsError"
            /\ UNCHANGED <<database, directory, sealed>>
       ELSE /\ pc' = "make_indices"
            /\ database' = NewDataBase
            /\ directory' = [directory EXCEPT !.store = TRUE]
            /\ sealed' = <<>>
            /\ UNCHANGED error
    /\ UNCHANGED <<frequency_threshold, num_documents, vocabulary_indices, consumed,
                   infrequent, todo, updates, doc_id, num_queries, answer>>
    /\ UNCHANGED <<flush_interval, scenario, calls, args, runs>>

pickle_dump_fresh(num_docs, nb) ==
    [num_documents |-> num_docs, database |-> 0, vocabulary_indices |-> Numberer(0)]

\* pickle.dump(inverted_index) while inverted_index.database is 0
pickle_dump(num_docs, nb) ==
    [num_documents |-> num_docs, database |-> 0, vocabulary_indices |-> nb]

\* the sidecar inverted_index.pickle is written
Pickle ==
    /\ pc = "built"
    /\ args.mode \in {1, 3}
    /\ directory' = [directory EXCEPT !.sidecar =
                       <<[written_by |-> runs,
                          inverted_index |-> pickle_dump(num_documents, vocabulary_indices)]>>]
    /\ pc' = IF args.mode = 3 THEN "serving" ELSE "exit"
    /\ UNCHANGED <<error, frequency_threshold, num_documents, vocabulary_indices,
                   database, consumed, infrequent, todo, updates, doc_id, num_queries,
                   answer>>
    /\ UNCHANGED <<flush_interval, scenario, calls, args, runs, sealed>>

\* mode 2: pickle.load, then DataBase(database_file, existing = True)
Load ==
    /\ pc = "main"
    /\ args.mode = 2
    /\ IF directory.sidecar = <<>>
       THEN /\ pc' = "failed"
            /\ error' = "FileNotFoundError"
            /\ UNCHANGED <<num_documents, vocabulary_indices>>
       ELSE LET inverted_index == directory.sidecar[1].inverted_index
            IN /\ num_documents' = inverted_index.num_documents
               /\ vocabulary_indices' = inverted_index.vocabulary_indices
               /\ IF directory.store
                  THEN pc' = "serving" /\ UNCHANGED error
                  ELSE pc' = "failed" /\ error' = "AssertionError"
    /\ UNCHANGED <<frequency_threshold, database, consumed, infrequent, todo, updates,
                   doc_id, num_queries, answer>>
    /\ UNCHANGED main_vars

\* for query in sys.stdin: query_index(query, num_results, fulltext)
Serve ==
    /\ pc = "serving"
    /\ QueryLine({Omitted})

\* stdin is exhausted
EndOfInput ==
    /\ pc = "serving"
    /\ pc' = "exit"
    /\ UNCHANGED <<error, frequency_threshold, num_documents, vocabulary_indices,
                   database, consumed, infrequent, todo, updates, doc_id, num_queries,
                   answer>>
    /\ UNCHANGED main_vars

NextMain ==
    \/ Run
    \/ CheckArguments
    \/ DownloadMonth
    \/ DecompressMonth
    \/ JoinPool
    \/ OpenStore
    \/ Build
    \/ Pickle
    \/ Load
    \/ Serve
    \/ EndOfInput

SpecMain == InitMain /\ [][NextMain]_vars

\* ---- one build process, its download workers step by step ----------------
\* main right after parse_args, in an empty args.dir
InitPool ==
    /\ pc = "main"
    /\ error = "none"
    /\ frequency_threshold \in 0 .. MaxThreshold
    /\ num_documents = 0
    /\ vocabulary_indices = Numberer(0)
    /\ database = NewDataBase
    /\ consumed = <<>>
    /\ infrequent = {}
    /\ todo = {}
    /\ updates = {}
    /\ doc_id = 0
    /\ num_queries = 0
    /\ answer = NoAnswer
    /\ calls = <<>>
    /\ args \in {[mode |-> mode, start |-> start, end |-> end, cores |-> cores] :
                   mode \in {1, 3}, start \in 0 .. MaxPoolMonths,
                   end \in 0 .. MaxPoolMonths, cores \in 1 .. MaxCores}
    /\ runs = 1
    /\ directory = EmptyDirectory
    /\ sealed = <<>>
    /\ flush_interval = FlushInterval
    /\ scenario = 0

NextPool ==
    \/ CheckArguments
    \/ DownloadMonth
    \/ DecompressMonth
    \/ JoinPool
    \/ OpenStore
    \/ Build
    \/ Pickle

SpecPool == InitPool /\ [][NextPool]_vars

\* ---- a Numberer on its own: any interleaving of get and remove_values -------
InitNumberer ==
    /\ pc = "numberer"
    /\ error = "none"
    /\ frequency_threshold = 0
    /\ num_documents = 0
    /\ \E start \in 0 .. 1 : vocabulary_indices = Numberer(start)
    /\ database = NewDataBase
    /\ consumed = <<>>
    /\ infrequent = {}
    /\ todo = {}
    /\ updates = {}
    /\ doc_id = 0
    /\ num_queries = 0
    /\ answer = NoAnswer
    /\ calls = <<>>
    /\ args = NoArgs
    /\ runs = 0
    /\ directory = EmptyDirectory
    /\ sealed = <<>>
    /\ flush_interval = FlushInterval
    /\ scenario = 0

\* the numbers the Numberer holds
Numbers(nb) == {nb.known[k] : k \in DOMAIN nb.known}

\* vocabulary_indices.get(key)
Get ==
    /\ pc = "numberer"
    /\ Len(calls) < MaxCalls
    /\ \E key \in Tokens :
         LET got == NumbererGet(vocabulary_indices, key)
         IN /\ vocabulary_indices' = got.numberer
            /\ calls' = Append(calls, [op |-> "get", key |-> key, values |-> {},
                                       id |-> got.id, before |-> vocabulary_indices,
                                       after |-> got.numberer])
    /\ UNCHANGED <<pc, error, frequency_threshold, num_documents, database, consumed,
                   infrequent, todo, updates, doc_id, num_queries, answer>>
    /\ UNCHANGED <<args, runs, directory, sealed, flush_interval, scenario>>

\* vocabulary_indices.remove_values(values), values being numbers it holds
Remove ==
    /\ pc = "numberer"
    /\ Len(calls) < MaxCalls
    /\ \E values \in SUBSET Numbers(vocabulary_indices) :
         LET after == remove_values(vocabulary_indices, values)
         IN /\ vocabulary_indices' = after
            /\ calls' = Append(calls, [op |-> "remove_values", key |-> "", values |-> values,
                                       id |-> 0, before |-> vocabulary_indices,
                                       after |-> after])
    /\ UNCHANGED <<pc, error, frequency_threshold, num_documents, database, consumed,
                   infrequent, todo, updates, doc_id, num_queries, answer>>
    /\ UNCHANGED <<args, runs, directory, sealed, flush_interval, scenario>>

NextNumberer == Get \/ Remove

SpecNumberer == InitNumberer /\ [][NextNumberer]_vars

\* ---- what the stream says, for the statements below -----------------------
RECURSIVE Flatten(_)
Flatten(seqs) == IF seqs = <<>> THEN <<>> ELSE Head(seqs) \o Flatten(Tail(seqs))

\* occurrences of a token in the whole stream read so far
RawCount(tok) == Count(tok, Flatten(consumed))

\* the dictionary as ingest left it: token -> term id, in order of first sight
IngestIds == GetAll(Numberer(0), Flatten(consumed)).numberer.known

Postings == database.doc_term_table
TermIdsStored == {r.term_id : r \in Postings}
RowsOf(db, d) == {r \in db.doc_term_table : r.document_id = d}
KeysOf(db, d) == {r.term_id : r \in RowsOf(db, d)}
Stmts == database.statements
IsInsert(s) == s \in {"INSERT document_table", "INSERT doc_term_table"}

PruneDone ==
    /\ pc \notin {"make_indices", "ingest", "prepare_deletes", "remove_terms"}
    /\ error # "IntegrityError"

BuildCompleted == pc = "built" /\ num_queries = 0

C2_ScoringNeverDividesByZero ==
    ~(pc = "failed" /\ error = "ZeroDivisionError" /\ ~answer.asked)

\* C3: the candidates of a conjunctive query are the documents that hold a
\* posting of every query term
C3_ConjunctiveIsIntersection ==
    (answer.asked /\ answer.conjunctive = "True" /\ "candidates" \in DOMAIN answer
        /\ answer.term_ids # <<>>)
    => answer.candidates =
         {d \in 0 .. num_documents - 1 :
            \A t \in Range(answer.term_ids) : HasKey(Postings, d, t)}

\* C4: a query that is disjunctive, by request or because the caller did not
\* ask for conjunctive, computes as its candidates exactly the documents that
\* hold a posting of at least one query term
C4_DisjunctiveIsUnion ==
    (answer.asked /\ answer.conjunctive # "True")
    => /\ "candidates" \in DOMAIN answer
       /\ answer.candidates =
            {d \in 0 .. num_documents - 1 :
               \E t \in Range(answer.term_ids) : HasKey(Postings, d, t)}

\* C5: a query leaves the dictionary as it was: the same (term, term id)
\* entries and the same num_keys after query_index as before it
C5_QueryLeavesDictionary ==
    [][num_queries' = num_queries + 1 => vocabulary_indices' = vocabulary_indices]_vars

\* C6: a step that deletes postings of a document removes the document's row
\* in the same step when no posting is left, and leaves the row alone when
\* one is left
C6_CascadeInSameDelete ==
    [][\A d \in 0 .. num_documents - 1 :
         KeysOf(database, d) \ KeysOf(database', d) # {}
         => IF KeysOf(database', d) = {}
            THEN NameRows(database', d) = {}
            ELSE NameRows(database', d) # {}
                 /\ NameRows(database', d) = NameRows(database, d)]_vars

C6_Witness ==
    /\ pc = "remove_terms"
    /\ \E d1, d2 \in 0 .. num_documents - 1 :
         /\ consumed[d1 + 1] # <<>>
         /\ NameRows(database, d1) = {}
         /\ KeysOf(database, d2) # {}
         /\ Cardinality(KeysOf(database, d2)) < Cardinality(Range(consumed[d2 + 1]))
         /\ NameRows(database, d2) # {}

\* C7: the phases are sequenced: every DELETE comes after all the inserts
\* and after a COMMIT that follows them; every UPDATE comes after all the
\* DELETEs, when remove_terms has nothing left to delete and the dictionary
\* holds none of the removed ids
C7_PhasesSequenced ==
    /\ \A i \in DOMAIN Stmts :
         Stmts[i] = "DELETE"
         => /\ \A j \in DOMAIN Stmts : IsInsert(Stmts[j]) => j < i
            /\ \E k \in 1 .. i - 1 :
                 /\ Stmts[k] = "COMMIT"
                 /\ \A j \in DOMAIN Stmts : IsInsert(Stmts[j]) => j < k
    /\ \A i \in DOMAIN Stmts :
         Stmts[i] = "UPDATE"
         => /\ \A j \in DOMAIN Stmts : Stmts[j] = "DELETE" => j < i
            /\ todo = {}
            /\ pc \notin {"make_indices", "ingest", "prepare_deletes", "remove_terms",
                          "remove_values"}
            /\ \A k \in DOMAIN vocabulary_indices.known :
                 vocabulary_indices.known[k] \notin infrequent
            /\ TermIdsStored \cap infrequent = {}

C7_Witness ==
    /\ \E i \in DOMAIN Stmts : IsInsert(Stmts[i])
    /\ \E i \in DOMAIN Stmts : Stmts[i] = "DELETE"
    /\ \E i \in DOMAIN Stmts : Stmts[i] = "UPDATE"

\* C8: when the build has completed, the term ids that have a posting are
\* exactly the term ids the dictionary holds
C8_DictionaryMatchesMatrix ==
    BuildCompleted =>
        TermIdsStored = {vocabulary_indices.known[k] : k \in DOMAIN vocabulary_indices.known}

C8_Witness ==
    /\ BuildCompleted
    /\ Postings # {}
    /\ infrequent # {}

\* C9: in every state, every document_id of a posting has a row in
\* document_table
C9_PostingsHaveDocumentRow ==
    \A r \in Postings : NameRows(database, r.document_id) # {}

C9_Witness ==
    /\ pc \in {"remove_terms", "transform", "built"}
    /\ Postings # {}
    /\ \E d \in 0 .. num_documents - 1 : NameRows(database, d) = {}
    /\ \E d \in 0 .. num_documents - 1 :
         KeysOf(database, d) # {}
         /\ Cardinality(KeysOf(database, d)) < Cardinality(Range(consumed[d + 1]))

\* C10: no two postings share (document_id, term_id), no insert is ever
\* rejected for a duplicate key, and until prune deletes anything a document
\* has exactly one posting per distinct token, scored with the token's number
\* of occurrences in the document
C10_OnePostingPerDistinctTerm ==
    /\ error # "IntegrityError"
    /\ \A r1, r2 \in Postings :
         (r1.document_id = r2.document_id /\ r1.term_id = r2.term_id) => r1 = r2
    /\ pc \in {"ingest", "prepare_deletes"}
       => \A i \in DOMAIN consumed :
            RowsOf(database, i - 1) =
              {[document_id |-> i - 1, term_id |-> IngestIds[tok],
                score |-> Fix(Count(tok, consumed[i]))] : tok \in Range(consumed[i])}

C10_Witness ==
    /\ pc = "ingest"
    /\ \E i \in DOMAIN consumed :
         /\ Len(consumed[i]) > Cardinality(Range(consumed[i]))
         /\ RowsOf(database, i - 1) # {}

\* ---- document ids, scores and ranking -------------------------------------
DocumentIds == {r.document_id : r \in database.document_table}

\* C11: the k-th record read from the stream (k from 0) is document k: its
\* row carries the k-th record's name and its postings the k-th token list;
\* until prune deletes anything the ids are 0 .. N-1 without a gap, and
\* num_documents is the number of records read
C11_IdsInArrivalOrder ==
    /\ num_documents = Len(consumed)
    /\ DocumentIds \subseteq 0 .. Len(consumed) - 1
    /\ \A r \in database.document_table : r.document_name = <<"comment", r.document_id>>
    /\ \A r \in Postings :
         \E tok \in Range(consumed[r.document_id + 1]) : IngestIds[tok] = r.term_id
    /\ pc \in {"ingest", "prepare_deletes"} => DocumentIds = 0 .. Len(consumed) - 1

C11_Witness ==
    /\ pc = "prepare_deletes"
    /\ num_documents = MaxDocs
    /\ \E i, j \in DOMAIN consumed : consumed[i] # consumed[j]

SquareSum(d) == SumSquares(retrieve_document(database, d))

ScoringDone == pc \in {"prepare_searches", "built"} \/ (pc = "failed" /\ answer.asked)

\* a sum of squares that is 1: within the rounding of Scale-unit scores
IsOne(square_sum) ==
    /\ square_sum * 64 >= Scale * Scale * 63
    /\ square_sum * 64 <= Scale * Scale * 65

\* C12: once scoring is over, the squares of the scores of every document
\* add up to 0 (no posting left) or to 1 within the rounding
C12_UnitNormAfterScoring ==
    ScoringDone =>
        \A d \in 0 .. num_documents - 1 :
            IF RowsOf(database, d) = {} THEN SquareSum(d) = 0 ELSE IsOne(SquareSum(d))

C12_Witness ==
    /\ ScoringDone
    /\ \E d \in 0 .. num_documents - 1 :
         /\ Cardinality(RowsOf(database, d)) >= 2
         /\ \E r1, r2 \in RowsOf(database, d) : r1.score # r2.score

\* similarity of a candidate under the query the answer records
SimilarityOf(c) ==
    get_similarity(database, c,
                   query_to_tfidf(database, num_documents, answer.term_ids))[1]

Min(a, b) == IF a <= b THEN a ELSE b

\* C13: a query that ran returns min(top_k, number of candidates) distinct
\* candidates, in non-increasing order of similarity, and no candidate left
\* out is more similar than one returned
C13_TopKBySimilarity ==
    (answer.asked /\ answer.error = "none")
    => LET res == answer.results
           returned == {res[i].doc_id : i \in DOMAIN res}
       IN /\ Len(res) = Min(answer.num_results, Cardinality(answer.candidates))
          /\ returned \subseteq answer.candidates
          /\ Cardinality(returned) = Len(res)
          /\ \A i \in DOMAIN res : res[i].similarity = SimilarityOf(res[i].doc_id)
          /\ \A i, j \in DOMAIN res : i < j => res[i].similarity >= res[j].similarity
          /\ \A c \in answer.candidates \ returned :
               \A i \in DOMAIN res : SimilarityOf(c) <= res[i].similarity

C13_Witness ==
    /\ answer.asked
    /\ answer.error = "none"
    /\ Len(answer.results) = 1
    /\ \E c \in answer.candidates : SimilarityOf(c) < answer.results[1].similarity

\* the dictionary the build ends with
KnownAtSeal ==
    remove_values(GetAll(Numberer(0), Flatten(consumed)).numberer, infrequent).known

\* C14: on any finished index, a query of which every term is unknown to
\* the index raises nothing and gives no candidate and no result
C14_UnknownTermsGiveEmptyResult ==
    (answer.asked /\ answer.conjunctive # Omitted /\ answer.tokens # <<>>
        /\ Range(answer.tokens) \cap DOMAIN KnownAtSeal = {})
    => /\ answer.error = "none"
       /\ answer.candidates = {}
       /\ answer.results = <<>>

\* C15: a query with terms whose tf-idf vector has norm 0 raises nothing:
\* it gives an empty result and the run goes on
C15_ZeroNormQueryGivesEmptyResult ==
    (answer.asked /\ answer.conjunctive # Omitted /\ answer.tokens # <<>>
        /\ num_documents >= 1
        /\ \A t \in Range(answer.term_ids) : get_idf(database, num_documents, t) = 0)
    => /\ answer.error = "none"
       /\ answer.results = <<>>
       /\ pc # "failed"

\* C18: a query changes no posting, no document row and not num_documents
C18_QueriesLeaveStoreAlone ==
    [][num_queries' = num_queries + 1
       => /\ database'.doc_term_table = database.doc_term_table
          /\ database'.document_table = database.document_table
          /\ num_documents' = num_documents]_vars

C18_Witness ==
    /\ answer.asked
    /\ answer.error = "none"
    /\ answer.results # <<>>
    /\ answer.fulltext

\* ---- the term dictionary on its own ----------------------------------------
Gets == {i \in DOMAIN calls : calls[i].op = "get"}

Removals == {i \in DOMAIN calls : calls[i].op = "remove_values"}

\* a get that had to take a new number
Fresh(i) == calls[i].op = "get" /\ calls[i].key \notin DOMAIN calls[i].before.known

\* C16: after remove_values the keys of the removed numbers are gone, no later
\* get returns a removed number, and every number taken after a removal is
\* greater than every number taken before it, whatever the order of the calls
C16_RemovedIdsNeverReused ==
    /\ \A i \in Removals :
         /\ \A k \in DOMAIN calls[i].before.known :
              calls[i].before.known[k] \in calls[i].values
              => k \notin DOMAIN calls[i].after.known
         /\ \A j \in Gets : j > i => calls[j].id \notin calls[i].values
    /\ \A i, j \in Gets : (i < j /\ Fresh(j)) => calls[j].id > calls[i].id

C16_Witness ==
    \E i \in Gets, r \in Removals, j \in Gets :
      /\ i < r /\ r < j
      /\ calls[i].id \in calls[r].values
      /\ calls[j].key = calls[i].key
      /\ calls[j].id > calls[i].id

Injective(nb) ==
    \A k1, k2 \in DOMAIN nb.known : nb.known[k1] = nb.known[k2] => k1 = k2

\* C17: the dictionary is one-to-one after any sequence of get and remove_values;
\* get of a key it holds returns the key's number and changes nothing, and the
\* key holds the number get returned
C17_DictionaryIsBijection ==
    /\ Injective(vocabulary_indices)
    /\ \A i \in DOMAIN calls : Injective(calls[i].after)
    /\ \A i \in Gets :
         /\ calls[i].after.known[calls[i].key] = calls[i].id
         /\ ~Fresh(i) => /\ calls[i].id = calls[i].before.known[calls[i].key]
                         /\ calls[i].after = calls[i].before

C17_Witness ==
    \E i, j \in Gets :
      /\ i < j /\ calls[i].key = calls[j].key /\ calls[i].id = calls[j].id
      /\ \E r \in Removals : r < i /\ calls[r].values # {}
      /\ \E h \in Gets : calls[h].key # calls[i].key /\ calls[h].id # calls[i].id

Reloaded == pc = "serving" /\ args.mode = 2

Survives(tok) == RawCount(tok) > frequency_threshold

\* documents of the stream that hold the token, if prune left its postings
PrunedDf(tok) ==
    IF Survives(tok)
    THEN Cardinality({i \in DOMAIN consumed : tok \in Range(consumed[i])})
    ELSE 0

\* log2(N / max(df, 1)) with N the number of documents read at ingest
StreamIdf(tok) == log2(Len(consumed), Max(PrunedDf(tok), 1))

StreamTfidfs(d) ==
    {<<IngestIds[tok], (Fix(Count(tok, consumed[d + 1])) * StreamIdf(tok)) \div Scale>> :
       tok \in {t \in Range(consumed[d + 1]) : Survives(t)}}

\* a document that lost its row to the cascade
Cascaded(d) == consumed[d + 1] # <<>> /\ RowsOf(database, d) = {}

\* C21: the tf-idf values scoring computes for a document, and the idf a query
\* reports for a term, use N = the number of documents read at ingest (cascade
\* deletes do not lower it) and df = the postings the term has after prune
C21_IdfUsesIngestCount ==
    /\ (pc = "transform" /\ doc_id < num_documents)
       => DocumentTfidfs(database, num_documents, doc_id) = StreamTfidfs(doc_id)
    /\ (answer.asked /\ "idfs" \in DOMAIN answer)
       => \A i \in DOMAIN answer.idfs :
            answer.idfs[i] = <<answer.query[i], StreamIdf(answer.query[i])>>

C21_Witness ==
    /\ answer.asked /\ "idfs" \in DOMAIN answer
    /\ \E d \in 0 .. num_documents - 1 : Cascaded(d)
    /\ answer.results # <<>>
    /\ \E i \in DOMAIN answer.idfs : answer.idfs[i][2] > 0

\* ---- the two corpora -------------------------------------------------------
\* C22: on corpus 1 (threshold 5) prune deletes every posting and every
\* document row, the dictionary is empty when the build completes, the build
\* does complete, and every query afterwards returns an empty result
C22_EverythingPruned ==
    scenario = 1
    => /\ pc = "failed" => answer.asked
       /\ PruneDone => (Postings = {} /\ database.document_table = {})
       /\ (pc \in {"prepare_updates", "transform", "prepare_searches"} \/ BuildCompleted)
          => DOMAIN vocabulary_indices.known = {}
       /\ (answer.asked /\ answer.conjunctive # Omitted)
          => (answer.error = "none" /\ answer.results = <<>>)

C22_Witness ==
    /\ scenario = 1
    /\ answer.asked /\ answer.conjunctive = "False" /\ answer.error = "none"
    /\ Len(answer.query) = MaxQueryLen
    /\ Range(answer.query) \subseteq Range(Concat(Corpus(1)))

\* C23: on corpus 2 (threshold 1) the build completes, and the query "c"
\* returns docA first with a positive similarity and docB, if at all, below it
C23_DocARanksFirst ==
    scenario = 2
    => /\ pc = "failed" => answer.asked
       /\ (answer.asked /\ answer.tokens = <<3>> /\ answer.conjunctive # Omitted)
          => /\ answer.error = "none"
             /\ answer.results # <<>>
             /\ answer.results[1].doc_id = 0
             /\ answer.results[1].similarity > 0
             /\ \A i \in DOMAIN answer.results :
                  answer.results[i].doc_id = 1
                  => answer.results[i].similarity < answer.results[1].similarity

\* ---- the order of the statements sent to the store --------------------------
Positions(stmt) == {i \in DOMAIN Stmts : Stmts[i] = stmt}

\* every `later` statement has an `earlier` statement before it
Precedes(earlier, later) ==
    \A j \in Positions(later) : \E i \in Positions(earlier) : i < j

\* C24: prune commits the ingest, builds the term_id index, then selects the
\* infrequent terms, then deletes their postings, then drops them from the
\* dictionary
C24_IndexBeforeSelect ==
    /\ Precedes("COMMIT", "CREATE INDEX term_id")
    /\ Precedes("CREATE INDEX term_id", "SELECT infrequent")
    /\ Precedes("SELECT infrequent", "DELETE")
    /\ pc = "remove_values" => todo = {}

\* C25: no index exists while ingest inserts; the term_id index exists before
\* the first delete of prune, the document_id index before the first read or
\* update of scoring; each index is created once in a build
C25_IndicesOnSchedule ==
    /\ \A j \in DOMAIN Stmts :
         IsInsert(Stmts[j]) => \A i \in 1 .. j : Stmts[i] \notin
                                 {"CREATE INDEX term_id", "CREATE INDEX document_id"}
    /\ pc = "ingest" => database.indices = {}
    /\ Precedes("CREATE INDEX term_id", "DELETE")
    /\ Precedes("CREATE INDEX document_id", "SELECT document")
    /\ Precedes("CREATE INDEX document_id", "UPDATE")
    /\ Cardinality(Positions("CREATE INDEX term_id")) <= 1
    /\ Cardinality(Positions("CREATE INDEX document_id")) <= 1
    /\ BuildCompleted
       => /\ Cardinality(Positions("CREATE INDEX term_id")) = 1
          /\ Cardinality(Positions("CREATE INDEX document_id")) = 1
          /\ database.indices = {"term_id", "document_id"}

C25_Witness ==
    /\ BuildCompleted
    /\ Positions("INSERT doc_term_table") # {}
    /\ Positions("DELETE") # {}
    /\ Positions("UPDATE") # {}

\* ---- the flushes of the scoring phase ---------------------------------------
\* the postings for which an update is waiting in the buffer
Buffered == {<<u[2], u[3]>> : u \in updates}

ScoringEnded == pc \in {"prepare_searches", "built"}

\* C26: when scoring ends, whatever the number of documents is against the
\* flush interval, every posting left by prune was overwritten once with a
\* normalized score and the buffer holds no update; on the way there, the
\* updates executed and the updates buffered are one per posting of the
\* documents read so far
C26_EveryPostingUpdatedOnce ==
    /\ pc = "transform"
       => /\ Cardinality(Positions("UPDATE")) + Cardinality(updates)
               = Cardinality({r \in Postings : r.document_id < doc_id})
          /\ Cardinality(Buffered) = Cardinality(updates)
          /\ \A k \in Buffered : k[1] < doc_id /\ HasKey(Postings, k[1], k[2])
    /\ ScoringEnded
       => /\ updates = {}
          /\ Cardinality(Positions("UPDATE")) = Cardinality(Postings)
          /\ \A d \in 0 .. num_documents - 1 :
               RowsOf(database, d) # {} => IsOne(SquareSum(d))

C26_Witness ==
    /\ pc = "prepare_searches"
    /\ flush_interval = MaxInterval
    /\ num_documents > flush_interval
    /\ \A d \in 0 .. num_documents - 1 : RowsOf(database, d) # {}
    /\ \E d \in 0 .. num_documents - 1 : Cardinality(RowsOf(database, d)) >= 2

\* the normalized scores of a document as the stream determines them
StreamNormed(d) == Normed(StreamTfidfs(d), d)

\* C28: what scoring computes for a document is what the raw counts and the
\* document frequencies after prune determine, whichever documents have been
\* written to the store before it is read; the scores at the end are the same
\* for every flush interval
C28_ScoresIgnoreFlushTiming ==
    /\ (pc = "transform" /\ doc_id < num_documents
          /\ ~DivFails(StreamTfidfs(doc_id), l2_norm(StreamTfidfs(doc_id))))
       => Normed(DocumentTfidfs(database, num_documents, doc_id), doc_id)
            = StreamNormed(doc_id)
    /\ ScoringEnded
       => \A r \in Postings :
            <<r.score, r.document_id, r.term_id>> \in StreamNormed(r.document_id)

C28_Witness ==
    /\ pc = "transform"
    /\ doc_id < num_documents
    /\ flush_interval = 1
    /\ \E r \in Postings :
         /\ r.document_id < doc_id
         /\ r.term_id \in KeysOf(database, doc_id)
         /\ r.score < Scale

\* ---- the terms of a query and the documents left ---------------------------
\* C27: the terms of a query are its tokens without repeats, in the order of
\* their first occurrence, so the token order alone fixes the order of the
\* idf lines; the i-th term id is the id of the i-th term
C27_FirstOccurrenceOrder ==
    (answer.asked /\ answer.conjunctive # Omitted /\ answer.error = "none")
    => /\ answer.query = Distinct(answer.tokens)
       /\ Len(answer.term_ids) = Len(answer.query)
       /\ \A i \in DOMAIN answer.query :
            vocabulary_indices.known[answer.query[i]] = answer.term_ids[i]

\* C29: when the build completes every document row has a posting, also for
\* a stream that holds documents without tokens
C29_NoDocumentWithoutPosting ==
    BuildCompleted
    => \A r \in database.document_table : RowsOf(database, r.document_id) # {}

\* C30: a process that builds consumes a document only when every requested
\* month has its json file written by this process and no archive of this
\* process is left, so no worker is running while the engine runs; and a
\* month's json file is written only in a step that starts with the month's
\* archive downloaded by this process
WorkersDone == \A m \in Requested : Decompressed(m) /\ ~Downloaded(m)

EngineRuns ==
    pc \in {"open_store", "make_indices", "ingest", "prepare_deletes", "remove_terms",
            "remove_values", "prepare_updates", "transform", "prepare_searches",
            "built", "serving"}

C30_EngineAfterWorkers ==
    /\ []((args.mode \in {1, 3} /\ (EngineRuns \/ consumed # <<>>)) => WorkersDone)
    /\ [][\A m \in 1 .. MaxPoolMonths :
            (Decompressed(m)' /\ ~Decompressed(m)) => Downloaded(m)]_vars

C30_Witness ==
    /\ args.cores > 1
    /\ Cardinality(Requested) > 1
    /\ consumed # <<>>

====
